---- MODULE Spec2Model ----
(***************************************************************************)
(* A model of the iTick streaming client and service:                      *)
(*   ItickWebSocketClient  connection lifecycle, heartbeat, reconnection   *)
(*   ItickService          start/stop, history buffers, republishing       *)
(*                                                                         *)
(* Every handler of the code is one action.  A handler runs to completion  *)
(* (one event-loop task together with the promise continuations it wakes); *)
(* the only places where a handler is suspended across tasks are the       *)
(* awaits on the alerting collaborator (LarkNotifier, an HTTP request),    *)
(* on connect() and on waitForAuthentication(): each of those is a         *)
(* separate action that resumes the suspended handler.                     *)
(*                                                                         *)
(* The transport (the ws library's WebSocket) is the environment: a socket *)
(* is CONNECTING, OPEN, CLOSING or CLOSED, and delivers open / message /   *)
(* error / close events to the handlers connect() registered on it.  The   *)
(* handlers are closures over the client, not over the socket: an event of *)
(* a socket the client has already replaced still runs them.               *)
(***************************************************************************)
EXTENDS Integers, Sequences, FiniteSets, TLC

(***************************************************************************)
(* Program constants.                                                      *)
(***************************************************************************)
maxReconnectAttempts == 5
reconnectDelay == 1000
maxReconnectDelay == 30000
heartbeatDelay == 60000
heartbeatTimeoutDelay == 10000

(***************************************************************************)
(* Bounds of the model.  maxBufferSize is 1000 in the code; the model      *)
(* scales the capacity down and every statement about it is written in     *)
(* terms of maxBufferSize.                                                 *)
(***************************************************************************)
maxBufferSize == 3
MaxSockets == 3
MaxPending == 2
MaxChainSockets == 5
MaxAppends == 5
MaxSessionSockets == 2

DISCONNECTED == "disconnected"
CONNECTING == "connecting"
CONNECTED == "connected"
AUTHENTICATED == "authenticated"
SUBSCRIBED == "subscribed"
ERROR == "error"

ConnectionStatus ==
    {DISCONNECTED, CONNECTING, CONNECTED, AUTHENTICATED, SUBSCRIBED, ERROR}

(* WebSocket.readyState *)
RS_CONNECTING == "CONNECTING"
RS_OPEN == "OPEN"
RS_CLOSING == "CLOSING"
RS_CLOSED == "CLOSED"

SymbolLists == {<<"EURUSD$GB">>, <<"EURUSD$GB", "USDJPY$GB">>}

(* the argument of the start() calls of the lifecycle specification *)
StartLists == {<<"EURUSD$GB", "USDJPY$GB">>}

VARIABLES
    (* ItickWebSocketClient *)
    ws,                 \* 0 (null) or the index in socks of the current socket
    status,
    heartbeatInterval,  \* TRUE while the setInterval is armed
    heartbeatTimeout,   \* TRUE while the pong deadline is pending
    reconnectAttempts,
    shouldReconnect,
    (* ItickService *)
    isRunning,
    subscribedSymbols,
    dataBuffer,
    quoteBuffer,
    (* the event loop: sockets, timers and suspended handlers *)
    socks,              \* every socket connect() has created, in creation order
    timers,             \* pending reconnect timers, in the order they were armed
    authWaits,          \* start() calls suspended in waitForAuthentication()
    hbCallbacks,        \* heartbeat-timeout callbacks suspended on the notifier
    (* history *)
    op,                 \* the operation the last step executed
    emits,              \* the events the last step emitted, in order
    wrote,              \* the requests the last step wrote: <<socket, request>>
    stopped,            \* stop() has stopped the service and start() was not called since
    connectsSinceStop,  \* connect() calls made while stopped
    attemptsMade,       \* reconnect connect() calls since the last transport open
    maxReached,         \* maxReconnectAttemptsReached emitted since the last start()
    successAttempt,     \* the attempt number of the last reconnect-success notification
    klineLog,           \* kline events appended since the buffer was last emptied
    quoteLog,
    result,             \* the arguments and the return value of the call the
                        \* last step made
    (* the process that owns the service *)
    process             \* "embedded": the service used as a library;
                        \* "running", "exited": the process of index.ts

vars == <<ws, status, heartbeatInterval, heartbeatTimeout,
          reconnectAttempts, shouldReconnect, isRunning, subscribedSymbols,
          dataBuffer, quoteBuffer, socks, timers, authWaits, hbCallbacks,
          op, emits, wrote, stopped, connectsSinceStop, attemptsMade,
          maxReached, successAttempt, klineLog, quoteLog, result, process>>

(***************************************************************************)
(* The state as one record, so that a handler is a function from state to  *)
(* state and a handler that calls another is their composition.            *)
(***************************************************************************)
World ==
    [ws |-> ws, status |-> status, heartbeatInterval |-> heartbeatInterval,
     heartbeatTimeout |-> heartbeatTimeout,
     reconnectAttempts |-> reconnectAttempts, shouldReconnect |-> shouldReconnect,
     isRunning |-> isRunning, subscribedSymbols |-> subscribedSymbols,
     dataBuffer |-> dataBuffer, quoteBuffer |-> quoteBuffer, socks |-> socks,
     timers |-> timers, authWaits |-> authWaits, hbCallbacks |-> hbCallbacks,
     op |-> op, emits |-> emits, wrote |-> wrote, stopped |-> stopped,
     connectsSinceStop |-> connectsSinceStop, attemptsMade |-> attemptsMade,
     maxReached |-> maxReached, successAttempt |-> successAttempt,
     klineLog |-> klineLog, quoteLog |-> quoteLog, result |-> result,
     process |-> process,
     atExit |-> <<>>]         \* the state process.exit() ended the step in

(* The step ends in the state its handler computed or, when the handler   *)
(* called process.exit(), in the state it had reached by then.            *)
Commit(v) ==
    LET w == IF v.atExit # <<>> THEN v.atExit[1] ELSE v
    IN /\ ws' = w.ws
       /\ status' = w.status
       /\ heartbeatInterval' = w.heartbeatInterval
       /\ heartbeatTimeout' = w.heartbeatTimeout
       /\ reconnectAttempts' = w.reconnectAttempts
       /\ shouldReconnect' = w.shouldReconnect
       /\ isRunning' = w.isRunning
       /\ subscribedSymbols' = w.subscribedSymbols
       /\ dataBuffer' = w.dataBuffer
       /\ quoteBuffer' = w.quoteBuffer
       /\ socks' = w.socks
       /\ timers' = w.timers
       /\ authWaits' = w.authWaits
       /\ hbCallbacks' = w.hbCallbacks
       /\ op' = w.op
       /\ emits' = w.emits
       /\ wrote' = w.wrote
       /\ stopped' = w.stopped
       /\ connectsSinceStop' = w.connectsSinceStop
       /\ attemptsMade' = w.attemptsMade
       /\ maxReached' = w.maxReached
       /\ klineLog' = w.klineLog
       /\ quoteLog' = w.quoteLog
       /\ successAttempt' = w.successAttempt
       /\ result' = w.result
       /\ process' = w.process

(* A socket that is closed and has no handler suspended on it delivers    *)
(* nothing more: its history is dropped.                                  *)
DeadSocket ==
    [rs |-> "CLOSED", opened |-> TRUE, caller |-> "none", syms |-> <<>>, attempt |-> 0,
     promise |-> "settled", errWait |-> FALSE, cont |-> "none", closer |-> "none",
     closedFrom |-> "none",
     sched |-> 0, subReq |-> FALSE, pingReq |-> FALSE, streaming |-> FALSE,
     auth |-> "none"]

IsDead(s) == s.rs = "CLOSED" /\ ~s.errWait /\ s.cont = "none"

(* connect() creates a socket: a specification bounds the sockets created *)
(* and those not yet dead at any one time                                 *)
Room(maxSockets, maxPending) ==
    /\ Len(socks) < maxSockets
    /\ Cardinality({i \in 1..Len(socks) : ~IsDead(socks[i])}) < maxPending

(* The state a step starts from: the per-step history is empty. *)
Begin(name) ==
    [World EXCEPT !.op = name, !.emits = <<>>, !.wrote = <<>>, !.result = "none",
                  !.socks = [i \in 1..Len(@) |-> IF IsDead(@[i]) THEN DeadSocket ELSE @[i]]]

(* process.exit(): nothing of the handler runs after it *)
Exit(w) ==
    IF w.process # "running" THEN w
    ELSE LET x == [w EXCEPT !.process = "exited"]
         IN [x EXCEPT !.atExit = <<x>>]

(* the events index.ts answers with process.exit(1) *)
FatalEvents == {"authFailed", "subscribeFailed", "maxReconnectAttemptsReached"}

(* emit(): the listeners run before it returns; index.ts listens to the   *)
(* service's events                                                       *)
Emit(w, e) ==
    LET w1 == [w EXCEPT !.emits = Append(@, e)]
    IN IF e \in FatalEvents THEN Exit(w1) ELSE w1

Min(a, b) == IF a <= b THEN a ELSE b

RECURSIVE Pow2(_)
Pow2(n) == IF n <= 0 THEN 1 ELSE 2 * Pow2(n - 1)

RemoveAt(s, i) == [j \in 1..(Len(s) - 1) |-> IF j < i THEN s[j] ELSE s[j + 1]]


(***************************************************************************)
(* Sockets.  A socket record holds the transport's readyState and the      *)
(* promise connect() returned for it, with the caller awaiting it.         *)
(***************************************************************************)
NewSocket(caller, symbols, attempt) ==
    [rs |-> RS_CONNECTING,
     opened |-> FALSE,        \* the open event has been delivered
     caller |-> caller,       \* "start" or "reconnect": who awaits connect()
     syms |-> symbols,        \* start(symbols): the argument of the awaiting call
     attempt |-> attempt,     \* the timer callback's currentAttempt
     promise |-> "pending",   \* "pending", "resolved", "rejected"
     errWait |-> FALSE,       \* the error handler is suspended on the notifier,
                              \* with reject() still to come
     cont |-> "none",         \* "failNotify": the timer callback's catch block is
                              \* suspended on the notifier
     closer |-> "none",       \* who called close() on it: "disconnect", "heartbeat"
     closedFrom |-> "none",   \* the session status when close() was called on it
     sched |-> 0,             \* scheduleReconnect() calls made for its failure
     subReq |-> FALSE,        \* a subscribe request written to it awaits its response
     pingReq |-> FALSE,       \* a ping written to it awaits its pong
     streaming |-> FALSE,     \* the feed accepted a subscription on it
     auth |-> "none"]         \* the auth response it delivered: "ok", "failed"

Live(s) == s.rs \in {RS_CONNECTING, RS_OPEN}

RECURSIVE JoinSymbols(_)
JoinSymbols(symbols) ==
    IF Len(symbols) = 0 THEN ""
    ELSE IF Len(symbols) = 1 THEN symbols[1]
    ELSE symbols[1] \o "$" \o JoinSymbols(Tail(symbols))

(* WebSocket.close(): starts the closing handshake of an open socket and  *)
(* aborts the handshake of a connecting one; nothing on a closing or      *)
(* closed socket.  The close (and, for an aborted handshake, the error)   *)
(* event is delivered by a later task.                                    *)
wsClose(w, i, who) ==
    IF w.socks[i].rs \in {RS_CONNECTING, RS_OPEN}
    THEN [w EXCEPT !.socks[i].rs = RS_CLOSING, !.socks[i].closer = who,
                   !.socks[i].closedFrom = w.status]
    ELSE w

stopHeartbeat(w) ==
    [w EXCEPT !.heartbeatInterval = FALSE, !.heartbeatTimeout = FALSE]

startHeartbeat(w) ==
    [stopHeartbeat(w) EXCEPT !.heartbeatInterval = TRUE]

(* sendMessage without the test of readyState *)
sendMessage_anyReadyState(w, message) ==
    IF w.ws # 0
    THEN [w EXCEPT !.wrote = Append(@, <<w.ws, message>>),
                   !.socks[w.ws].subReq = IF message.ac = "subscribe" THEN TRUE ELSE @,
                   !.socks[w.ws].pingReq = IF message.ac = "ping" THEN TRUE ELSE @]
    ELSE w

sendMessage(w, message) ==
    IF w.ws # 0 /\ w.socks[w.ws].rs = RS_OPEN
    THEN [w EXCEPT !.wrote = Append(@, <<w.ws, message>>),
                   !.socks[w.ws].subReq = IF message.ac = "subscribe" THEN TRUE ELSE @,
                   !.socks[w.ws].pingReq = IF message.ac = "ping" THEN TRUE ELSE @]
    ELSE w

(* the subscribe request with the first symbol only *)
subscribeMessage_firstOnly(symbols) ==
    [ac |-> "subscribe",
     params |-> IF Len(symbols) = 0 THEN "" ELSE symbols[1],
     types |-> "quote"]

subscribeMessage(symbols) ==
    [ac |-> "subscribe", params |-> JoinSymbols(symbols), types |-> "quote"]

pingMessage == [ac |-> "ping", params |-> "now", types |-> ""]

(* subscribe() without the test of the status *)
subscribe_anyStatus(w, symbols) == sendMessage(w, subscribeMessage(symbols))

subscribe(w, symbols) ==
    IF w.status # AUTHENTICATED THEN w
    ELSE sendMessage(w, subscribeMessage(symbols))

sendHeartbeat(w) ==
    [sendMessage(w, pingMessage) EXCEPT !.heartbeatTimeout = TRUE]

(* the delay without the cap *)
ReconnectDelayFor_uncapped(n) == reconnectDelay * Pow2(n - 1)

(* delay = min(reconnectDelay * 2^(reconnectAttempts - 1), maxReconnectDelay) *)
ReconnectDelayFor(n) == Min(reconnectDelay * Pow2(n - 1), maxReconnectDelay)

(* scheduleReconnect(): cause is the socket whose failure leads to the call *)
scheduleReconnect(w, cause) ==
    LET n == w.reconnectAttempts + 1
        t == [attempt |-> n, delay |-> ReconnectDelayFor(n), handle |-> TRUE]
    IN [w EXCEPT !.reconnectAttempts = n,
                 !.timers = Append([k \in 1..Len(@) |-> [@[k] EXCEPT !.handle = FALSE]], t),
                 !.socks[cause].sched = @ + 1]

(* this.reconnectInterval names a pending timer.  The handle of a timer   *)
(* that has fired is not told apart from null: clearTimeout() of it does  *)
(* nothing.                                                               *)
reconnectInterval(w) == \E k \in 1..Len(w.timers) : w.timers[k].handle

(* clearTimeout(this.reconnectInterval): cancels the timer the handle names *)
clearReconnectTimer(w) ==
    [w EXCEPT !.timers = SelectSeq(@, LAMBDA t : ~t.handle)]

disconnect(w) ==
    LET w1 == stopHeartbeat([w EXCEPT !.shouldReconnect = FALSE])
        w2 == IF reconnectInterval(w1) THEN clearReconnectTimer(w1) ELSE w1
        w3 == IF w2.ws # 0 THEN [wsClose(w2, w2.ws, "disconnect") EXCEPT !.ws = 0] ELSE w2
    IN [w3 EXCEPT !.status = DISCONNECTED]

(* connect(): the synchronous part, up to the registration of the handlers *)
connect(w, caller, symbols, attempt) ==
    [w EXCEPT !.status = CONNECTING,
              !.shouldReconnect = TRUE,
              !.socks = Append(@, NewSocket(caller, symbols, attempt)),
              !.ws = Len(w.socks) + 1,
              !.connectsSinceStop = IF w.stopped THEN @ + 1 ELSE @,
              !.attemptsMade = IF caller = "reconnect" THEN @ + 1 ELSE @]

(***************************************************************************)
(* ItickService                                                            *)
(***************************************************************************)
clearDataBuffer(w) == [w EXCEPT !.dataBuffer = <<>>, !.klineLog = <<>>]

clearQuoteBuffer(w) == [w EXCEPT !.quoteBuffer = <<>>, !.quoteLog = <<>>]

(* stop() without its isRunning guard *)
stop_unguarded(w) ==
    Emit([disconnect([w EXCEPT !.isRunning = FALSE]) EXCEPT
              !.dataBuffer = <<>>, !.quoteBuffer = <<>>,
              !.klineLog = <<>>, !.quoteLog = <<>>,
              !.stopped = TRUE, !.connectsSinceStop = 0],
         "stopped")

(* stop() without the emptying of the buffers *)
stop_keepsBuffers(w) ==
    IF ~w.isRunning THEN w
    ELSE Emit([disconnect([w EXCEPT !.isRunning = FALSE]) EXCEPT
                   !.stopped = TRUE, !.connectsSinceStop = 0],
              "stopped")

stop(w) ==
    IF ~w.isRunning THEN w
    ELSE LET w1 == disconnect([w EXCEPT !.isRunning = FALSE])
         IN Emit([w1 EXCEPT !.dataBuffer = <<>>, !.quoteBuffer = <<>>,
                            !.klineLog = <<>>, !.quoteLog = <<>>,
                            !.stopped = TRUE, !.connectsSinceStop = 0],
                 "stopped")

resubscribe(w, symbols) ==
    LET w0 == [w EXCEPT !.result = [symbols |-> symbols]]
    IN IF ~w0.isRunning THEN w0
       ELSE subscribe([w0 EXCEPT !.subscribedSymbols = symbols], symbols)

(* the client emits maxReconnectAttemptsReached; the service's listener   *)
(* stops the service and republishes the event                            *)
onMaxReconnectAttemptsReached(w) ==
    LET w1 == stop(Emit(w, "client.maxReconnectAttemptsReached"))
    IN Emit([w1 EXCEPT !.maxReached = @ + 1], "maxReconnectAttemptsReached")

(* start() resumed after waitForAuthentication() resolved *)
startAfterAuthentication(w, symbols) ==
    Emit(subscribe(w, symbols), "started")

RECURSIVE resumeStarts(_, _)
resumeStarts(w, waits) ==
    IF Len(waits) = 0 THEN w
    ELSE resumeStarts(startAfterAuthentication(w, Head(waits)), Tail(waits))

(* start()'s catch block without the reset of isRunning *)
startFailed_keepsRunning(w) == Exit(w)

(* start()'s catch block: the error is thrown on to the caller, and       *)
(* main() of index.ts answers it with process.exit(1)                     *)
startFailed(w) == Exit([w EXCEPT !.isRunning = FALSE])


(***************************************************************************)
(* History buffers and the data handlers of the service.  Prices are       *)
(* integers in units of 0.0001.                                            *)
(***************************************************************************)
Abs(x) == IF x < 0 THEN -x ELSE x

(* addToBuffer without the eviction *)
addToBuffer_noShift(buffer, data) == Append(buffer, data)

addToBuffer(buffer, data) ==
    LET pushed == Append(buffer, data)
    IN IF Len(pushed) > maxBufferSize THEN Tail(pushed) ELSE pushed

(* |(price - previous) / previous * 100| > 0.1, for previous > 0 *)
SignificantChange(previous, price) == Abs(price - previous) * 1000 > previous

(* A kline event whose bar (k) is null: c and t stand for the fields of   *)
(* the bar, -1 for a bar that is not there.                               *)
NullBar(symbol) == [s |-> symbol, c |-> -1, t |-> -1]

HasBar(data) == data.c # -1

(* Reading a field of a null bar throws: the destructuring of data.k, or  *)
(* previousData.k.c.  The catch block of handleKlineData logs the error,  *)
(* and what processKlineData had not done yet is not done.                *)
processKlineData(w, data) ==
    LET n == Len(w.dataBuffer)
    IN IF ~HasBar(data) THEN w
       ELSE IF n >= 2 /\ w.dataBuffer[n - 1].s = data.s
            THEN IF ~HasBar(w.dataBuffer[n - 1]) THEN w
                 ELSE Emit(IF SignificantChange(w.dataBuffer[n - 1].c, data.c)
                           THEN Emit(w, "significantPriceChange") ELSE w,
                           "dataProcessed")
            ELSE Emit(w, "dataProcessed")

handleKlineData(w, data) ==
    LET w1 == [w EXCEPT !.dataBuffer = addToBuffer(@, data),
                        !.klineLog = Append(@, data)]
    IN processKlineData(Emit(Emit(w1, "client.klineData"), "klineData"), data)

processQuoteData(w, data) ==
    LET n == Len(w.quoteBuffer)
        w1 == IF n >= 2 /\ w.quoteBuffer[n - 1].s = data.s
                 /\ SignificantChange(w.quoteBuffer[n - 1].ld, data.ld)
              THEN Emit(w, "significantPriceChange") ELSE w
    IN Emit(w1, "quoteDataProcessed")

handleQuoteData(w, data) ==
    LET w1 == [w EXCEPT !.quoteBuffer = addToBuffer(@, data),
                        !.quoteLog = Append(@, data)]
    IN processQuoteData(Emit(Emit(w1, "client.quoteData"), "quoteData"), data)

(***************************************************************************)
(* The queries of the service.  A query leaves the state alone; the model  *)
(* records its arguments and the array it returns in result.               *)
(***************************************************************************)
(* the default value of the limit parameter *)
defaultLimit == 100

(* a symbol argument that was omitted *)
NoSymbol == ""

(* Array.prototype.slice(start): a negative start counts from the end and *)
(* is clamped to the beginning; -0 is 0, the beginning of the array.      *)
slice(array, start) ==
    LET len == Len(array)
        k == IF start < 0
             THEN (IF len + start > 0 THEN len + start ELSE 0)
             ELSE (IF start < len THEN start ELSE len)
    IN SubSeq(array, k + 1, len)

(* the filter of getKlineDataInRange with the end bound exclusive *)
getKlineDataInRange_exclusiveEnd(w, symbol, startTime, endTime) ==
    LET InRange(data) ==
            data.s = symbol /\ data.t >= startTime /\ data.t < endTime
    IN [w EXCEPT !.result = [symbol |-> symbol, startTime |-> startTime,
                             endTime |-> endTime,
                             value |-> SelectSeq(w.dataBuffer, InRange)]]

getKlineDataInRange(w, symbol, startTime, endTime) ==
    LET InRange(data) ==
            data.s = symbol /\ data.t >= startTime /\ data.t <= endTime
    IN [w EXCEPT !.result = [symbol |-> symbol, startTime |-> startTime,
                             endTime |-> endTime,
                             value |-> SelectSeq(w.dataBuffer, InRange)]]

getLatestKlineData(w, symbol, limit) ==
    LET OfSymbol(data) == data.s = symbol
        filteredData == IF symbol # NoSymbol
                        THEN SelectSeq(w.dataBuffer, OfSymbol)
                        ELSE w.dataBuffer
    IN [w EXCEPT !.result = [symbol |-> symbol, limit |-> limit,
                             value |-> slice(filteredData, -limit)]]

getLatestQuoteData(w, symbol, limit) ==
    LET OfSymbol(data) == data.s = symbol
        filteredData == IF symbol # NoSymbol
                        THEN SelectSeq(w.quoteBuffer, OfSymbol)
                        ELSE w.quoteBuffer
    IN [w EXCEPT !.result = [symbol |-> symbol, limit |-> limit,
                             value |-> slice(filteredData, -limit)]]

(***************************************************************************)
(* Message handlers of the client.                                         *)
(***************************************************************************)
handleAuthResponse(w, i, response) ==
    IF response.msg = "authenticated"
    THEN LET w1 == [w EXCEPT !.status = AUTHENTICATED, !.socks[i].auth = "ok",
                             !.authWaits = <<>>]
             w2 == Emit(Emit(w1, "client.authenticated"), "authenticated")
         IN resumeStarts(w2, w.authWaits)
    ELSE LET w1 == [w EXCEPT !.status = ERROR, !.socks[i].auth = "failed",
                             !.authWaits = <<>>]
             w2 == Emit(Emit(w1, "client.authFailed"), "authFailed")
         IN IF Len(w.authWaits) > 0 THEN startFailed(w2) ELSE w2

handleSubscribeResponse(w, response) ==
    IF response.msg = "subscribe Successfully"
    THEN Emit(Emit(startHeartbeat([w EXCEPT !.status = SUBSCRIBED]),
                   "client.subscribed"), "subscribed")
    ELSE Emit(Emit(w, "client.subscribeFailed"), "subscribeFailed")

(* handlePongResponse without the clearTimeout *)
handlePongResponse_keepsDeadline(w) == w

handlePongResponse(w) ==
    IF w.heartbeatTimeout THEN [w EXCEPT !.heartbeatTimeout = FALSE] ELSE w

(* The handler handleMessage() selects for an envelope; "log" is a branch *)
(* that only logs, "none" the switch on resAc falling through.            *)
Dispatch(m) ==
    IF m.hasCode
    THEN IF m.code = 1
         THEN IF m.resAc # "absent"
              THEN CASE m.resAc = "auth" -> "auth"
                     [] m.resAc = "subscribe" -> "subscribe"
                     [] m.resAc = "pong" -> "pong"
                     [] OTHER -> "none"
              ELSE IF m.data # "absent"
                   THEN CASE m.data = "kline" -> "kline"
                          [] m.data = "quote" -> "quote"
                          [] OTHER -> "log"
                   ELSE "log"
         ELSE "log"
    ELSE IF m.resAc = "pong" THEN "pong" ELSE "log"

handleMessage(w, i, m) ==
    LET h == Dispatch(m)
    IN CASE h = "auth" -> handleAuthResponse(w, i, m)
         [] h = "subscribe" -> handleSubscribeResponse(w, m)
         [] h = "pong" -> handlePongResponse(w)
         [] h = "kline" -> handleKlineData(w, m.ev)
         [] h = "quote" -> handleQuoteData(w, m.ev)
         [] OTHER -> w

(***************************************************************************)
(* Transport event handlers registered by connect().                       *)
(***************************************************************************)
(* A frame is a text: one that is not JSON, the JSON text null, or the    *)
(* JSON text of an envelope.                                              *)
TextFrame(body, m) == [body |-> body, m |-> m]

(* the message handler: JSON.parse throws on a text that is not JSON, and *)
(* handleMessage throws on null ('code' in null); the catch block logs    *)
onMessage(w, i, frame) ==
    IF frame.body # "object" THEN w
    ELSE handleMessage(w, i, frame.m)

onOpen(w, i) ==
    LET isReconnect == w.reconnectAttempts > 0
        w1 == [w EXCEPT !.status = CONNECTED, !.reconnectAttempts = 0,
                        !.attemptsMade = 0,
                        !.socks[i].rs = RS_OPEN, !.socks[i].opened = TRUE]
        w2 == IF isReconnect THEN Emit(w1, "client.reconnected") ELSE w1
    IN (* resolve(), and the caller of connect() resumed *)
       IF w.socks[i].promise # "pending" THEN w2
       ELSE IF w.socks[i].caller = "start"
            THEN [w2 EXCEPT !.socks[i].promise = "resolved",
                            !.authWaits = Append(@, w.socks[i].syms)]
            ELSE (* the timer callback notifies the reconnect's success *)
                 [w2 EXCEPT !.socks[i].promise = "resolved",
                            !.successAttempt = w.socks[i].attempt]

(* the error handler up to its await on the notifier; what follows the   *)
(* await is reject(), which does nothing once the promise is settled      *)
onError(w, i) ==
    [w EXCEPT !.status = ERROR,
              !.socks[i].errWait = w.socks[i].promise = "pending"]

(* the close handler without the test of the attempt counter *)
onClose_anyAttempt(w, i) ==
    LET w1 == stopHeartbeat([w EXCEPT !.status = DISCONNECTED,
                                      !.socks[i].rs = RS_CLOSED])
        w2 == Emit(Emit(w1, "client.disconnected"), "disconnected")
    IN IF w2.shouldReconnect THEN scheduleReconnect(w2, i) ELSE w2

onClose(w, i) ==
    LET w1 == stopHeartbeat([w EXCEPT !.status = DISCONNECTED,
                                      !.socks[i].rs = RS_CLOSED])
        w2 == Emit(Emit(w1, "client.disconnected"), "disconnected")
    IN IF w2.shouldReconnect /\ w2.reconnectAttempts < maxReconnectAttempts
       THEN scheduleReconnect(w2, i)
       ELSE w2

(* the error handler resumed: reject(error), and the caller of connect()  *)
(* resumed in its catch block                                             *)
onErrorNotified(w, i) ==
    LET w1 == [w EXCEPT !.socks[i].errWait = FALSE]
    IN IF w.socks[i].promise # "pending" THEN w1
       ELSE IF w.socks[i].caller = "start"
            THEN startFailed([w1 EXCEPT !.socks[i].promise = "rejected"])
            ELSE [w1 EXCEPT !.socks[i].promise = "rejected",
                            !.socks[i].cont = "failNotify"]

(* the timer callback's catch block after its await on the notifier *)
onReconnectFailureNotified(w, i) ==
    LET w1 == [w EXCEPT !.socks[i].cont = "none"]
    IN IF w1.reconnectAttempts < maxReconnectAttempts
       THEN scheduleReconnect(w1, i)
       ELSE onMaxReconnectAttemptsReached(w1)


(***************************************************************************)
(* Inbound frames.                                                         *)
(***************************************************************************)
Symbols == {"EURUSD$GB", "USDJPY$GB"}
Prices == {11000, 11005, 11015}
Times == {1, 2}

KlineEvents == [s : Symbols, c : Prices, t : Times]
QuoteEvents == [s : Symbols, ld : Prices, t : Times]

NoEvent == [s |-> "", c |-> 0, t |-> 0]

Envelope(hasCode, code, resAc, msg, data, ev) ==
    [hasCode |-> hasCode, code |-> code, resAc |-> resAc, msg |-> msg,
     data |-> data, ev |-> ev]

(* every shape of envelope *)
AllControlEnvelopes ==
    {Envelope(hc, c, r, m, d, NoEvent) :
        hc \in BOOLEAN, c \in {0, 1}, r \in {"absent", "auth", "subscribe", "pong", "other"},
        m \in {"authenticated", "subscribe Successfully", "other"},
        d \in {"absent", "other"}}

(* the responses of the feed that reach a handler with an effect *)
ControlEnvelopes ==
    {Envelope(TRUE, 1, "auth", "authenticated", "absent", NoEvent),
     Envelope(TRUE, 1, "auth", "other", "absent", NoEvent),
     Envelope(TRUE, 1, "subscribe", "subscribe Successfully", "absent", NoEvent),
     Envelope(TRUE, 1, "subscribe", "other", "absent", NoEvent),
     Envelope(FALSE, 0, "pong", "other", "absent", NoEvent)}

DataEnvelopes(klines, quotes) ==
    {Envelope(TRUE, 1, "absent", "other", "kline", e) : e \in klines}
    \cup {Envelope(TRUE, 1, "absent", "other", "quote", e) : e \in quotes}

IsData(m) == m.data \in {"kline", "quote"}

FeedMaySend(s, m) ==
    CASE m.resAc = "auth" -> s.auth = "none"
      [] m.resAc = "subscribe" -> s.subReq
      [] m.resAc = "pong" -> s.pingReq
      [] OTHER -> IsData(m) /\ s.streaming

(* the socket's record of what the feed has sent and still owes *)
FeedAfter(s, m) ==
    CASE m.resAc = "subscribe" ->
            [s EXCEPT !.subReq = FALSE,
                      !.streaming = @ \/ m.msg = "subscribe Successfully"]
      [] m.resAc = "pong" -> [s EXCEPT !.pingReq = FALSE]
      [] OTHER -> s

(***************************************************************************)
(* Actions: calls of the public interface.                                 *)
(***************************************************************************)
Start(symbols) ==
    /\ LET w == Begin("start")
       IN IF w.isRunning THEN Commit([w EXCEPT !.result = "resolved"])
          ELSE Commit(connect([w EXCEPT !.isRunning = TRUE,
                                        !.result = "pending",
                                        !.subscribedSymbols = symbols,
                                        !.stopped = FALSE,
                                        !.maxReached = 0],
                              "start", symbols, 0))

Stop == Commit(stop(Begin("stop")))

Resubscribe(symbols) == Commit(resubscribe(Begin("resubscribe"), symbols))

(***************************************************************************)
(* Actions: transport events.                                              *)
(***************************************************************************)
SocketOpen(i) ==
    /\ socks[i].rs = RS_CONNECTING
    /\ Commit(onOpen(Begin("open"), i))

(* a handshake that fails or was aborted by close(): error, then close,   *)
(* delivered back to back                                                 *)
SocketFail(i) ==
    /\ \/ socks[i].rs = RS_CONNECTING
       \/ socks[i].rs = RS_CLOSING /\ ~socks[i].opened
    /\ Commit(onClose(onError(Begin("fail"), i), i))

(* an error on an established connection; the library closes it after     *)
SocketError(i) ==
    /\ socks[i].rs = RS_OPEN
    /\ Commit(onError([Begin("error") EXCEPT !.socks[i].rs = RS_CLOSING], i))

SocketClose(i) ==
    /\ socks[i].opened
    /\ socks[i].rs \in {RS_OPEN, RS_CLOSING}
    /\ Commit(onClose(Begin("close"), i))

Frame(i, m) ==
    /\ socks[i].opened
    /\ socks[i].rs \in {RS_OPEN, RS_CLOSING}
    /\ LET w == Begin(Dispatch(m))
       IN Commit(handleMessage([w EXCEPT !.socks[i] = FeedAfter(@, m)], i, m))

(* A frame the feed sends by its protocol: one auth response after the    *)
(* open, a subscribe response to a subscribe request, a pong to a ping,   *)
(* data once a subscription succeeded.                                    *)
FeedFrame(i, m) ==
    /\ FeedMaySend(socks[i], m)
    /\ Frame(i, m)

(***************************************************************************)
(* Actions: handlers resumed after an await on the notifier.               *)
(***************************************************************************)
ErrorNotified(i) ==
    /\ socks[i].errWait
    /\ Commit(onErrorNotified(Begin("errorNotified"), i))

ReconnectFailureNotified(i) ==
    /\ socks[i].cont = "failNotify"
    /\ Commit(onReconnectFailureNotified(Begin("reconnectFailureNotified"), i))

(***************************************************************************)
(* Actions: timers.                                                        *)
(***************************************************************************)
(* A timer armed earlier with a delay no longer than another's fires first *)
CanFire(k) == \A j \in 1..(k - 1) : timers[j].delay > timers[k].delay

ReconnectTimerFires(k) ==
    /\ CanFire(k)
    /\ LET w == Begin("reconnectTimer")
       IN Commit(connect([w EXCEPT !.timers = RemoveAt(@, k)],
                         "reconnect", <<>>, w.reconnectAttempts))

(* the interval (60 s) outlasts the deadline (10 s) and the notifier's    *)
(* request (10 s): no deadline is pending when the next ping is due       *)
HeartbeatTick ==
    /\ heartbeatInterval
    /\ ~heartbeatTimeout
    /\ hbCallbacks = 0
    /\ Commit(sendHeartbeat(Begin("heartbeat")))

HeartbeatTimeoutFires ==
    /\ heartbeatTimeout
    /\ Commit([Begin("heartbeatTimeout") EXCEPT !.heartbeatTimeout = FALSE,
                                                 !.hbCallbacks = @ + 1])

HeartbeatTimeoutNotified ==
    /\ hbCallbacks > 0
    /\ LET w == [Begin("heartbeatTimeoutNotified") EXCEPT !.hbCallbacks = @ - 1]
       IN Commit(IF w.ws # 0 THEN wsClose(w, w.ws, "heartbeat") ELSE w)

(* waitForAuthentication()'s 10 s timer: start() fails in its catch block *)
AuthTimeout(k) ==
    /\ k \in 1..Len(authWaits)
    /\ Commit(startFailed([Begin("authTimeout") EXCEPT
                               !.authWaits = RemoveAt(@, k),
                               !.result = "AuthenticationTimeout"]))

(***************************************************************************)
(* The lifecycle specification.                                            *)
(***************************************************************************)
(* the state after the constructors; proc tells whether index.ts owns   *)
(* the service                                                            *)
InitState(proc) ==
    /\ ws = 0
    /\ status = DISCONNECTED
    /\ heartbeatInterval = FALSE
    /\ heartbeatTimeout = FALSE
    /\ reconnectAttempts = 0
    /\ shouldReconnect = TRUE
    /\ isRunning = FALSE
    /\ subscribedSymbols = <<>>
    /\ dataBuffer = <<>>
    /\ quoteBuffer = <<>>
    /\ socks = <<>>
    /\ timers = <<>>
    /\ authWaits = <<>>
    /\ hbCallbacks = 0
    /\ op = "init"
    /\ emits = <<>>
    /\ wrote = <<>>
    /\ stopped = FALSE
    /\ connectsSinceStop = 0
    /\ attemptsMade = 0
    /\ maxReached = 0
    /\ klineLog = <<>>
    /\ quoteLog = <<>>
    /\ successAttempt = 0
    /\ result = "none"
    /\ process = proc

Init == InitState("embedded")

Next ==
    \/ \E symbols \in StartLists : Room(MaxSockets, MaxPending) /\ Start(symbols)
    \/ Stop
    \/ \E i \in 1..Len(socks) : SocketOpen(i)
    \/ \E i \in 1..Len(socks) : SocketFail(i)
    \/ \E i \in 1..Len(socks) : SocketError(i)
    \/ \E i \in 1..Len(socks) : SocketClose(i)
    \/ \E i \in 1..Len(socks) :
          \E m \in ControlEnvelopes : FeedFrame(i, m)
    \/ \E i \in 1..Len(socks) : ErrorNotified(i)
    \/ \E i \in 1..Len(socks) : ReconnectFailureNotified(i)
    \/ \E k \in 1..Len(timers) : Room(MaxSockets, MaxPending) /\ ReconnectTimerFires(k)
    \/ HeartbeatTick
    \/ HeartbeatTimeoutFires
    \/ HeartbeatTimeoutNotified
    \/ \E k \in 1..Len(authWaits) : AuthTimeout(k)

Spec == Init /\ [][Next]_vars

(***************************************************************************)
(* The reconnection specification: the service is running and subscribed   *)
(* (the state start() reaches when the feed accepts the session), and      *)
(* from there the transport only fails: the connection drops and no        *)
(* reconnect attempt opens.                                                *)
(***************************************************************************)
SubscribedSocket ==
    [NewSocket("start", <<"EURUSD$GB", "USDJPY$GB">>, 0) EXCEPT
        !.rs = RS_OPEN, !.opened = TRUE, !.promise = "resolved",
        !.auth = "ok", !.streaming = TRUE]

InitSubscribed ==
    /\ ws = 1
    /\ status = SUBSCRIBED
    /\ heartbeatInterval = TRUE
    /\ heartbeatTimeout = FALSE
    /\ reconnectAttempts = 0
    /\ shouldReconnect = TRUE
    /\ isRunning = TRUE
    /\ subscribedSymbols = <<"EURUSD$GB", "USDJPY$GB">>
    /\ dataBuffer = <<>>
    /\ quoteBuffer = <<>>
    /\ socks = <<SubscribedSocket>>
    /\ timers = <<>>
    /\ authWaits = <<>>
    /\ hbCallbacks = 0
    /\ op = "subscribe"
    /\ emits = <<"client.subscribed", "subscribed">>
    /\ wrote = <<>>
    /\ stopped = FALSE
    /\ connectsSinceStop = 0
    /\ attemptsMade = 0
    /\ maxReached = 0
    /\ successAttempt = 0
    /\ klineLog = <<>>
    /\ quoteLog = <<>>
    /\ result = "none"
    /\ process = "embedded"

NextReconnect ==
    \/ Stop
    \/ \E i \in 1..Len(socks) : SocketFail(i)
    \/ \E i \in 1..Len(socks) : SocketError(i)
    \/ \E i \in 1..Len(socks) : SocketClose(i)
    \/ \E i \in 1..Len(socks) : ErrorNotified(i)
    \/ \E i \in 1..Len(socks) : ReconnectFailureNotified(i)
    \/ \E k \in 1..Len(timers) :
          Room(MaxChainSockets, MaxChainSockets) /\ ReconnectTimerFires(k)

SpecReconnect == InitSubscribed /\ [][NextReconnect]_vars


(***************************************************************************)
(* The buffer specification: the service is running and subscribed, the    *)
(* feed streams kline and quote events, and the caller may stop the        *)
(* service or empty a buffer.                                              *)
(***************************************************************************)
BufKlines == [s : Symbols, c : {11000, 11015}, t : {1}]
BufQuotes == [s : {"EURUSD$GB"}, ld : {11000, 11015}, t : {1}]

ClearDataBuffer == Commit(clearDataBuffer(Begin("clearDataBuffer")))

ClearQuoteBuffer == Commit(clearQuoteBuffer(Begin("clearQuoteBuffer")))

NextBuffer ==
    \/ \E i \in 1..Len(socks) : \E m \in DataEnvelopes(BufKlines, BufQuotes) :
          Len(klineLog) + Len(quoteLog) < MaxAppends /\ FeedFrame(i, m)
    \/ Stop
    \/ ClearDataBuffer
    \/ ClearQuoteBuffer

SpecBuffer == InitSubscribed /\ [][NextBuffer]_vars

(***************************************************************************)
(* The query specification: the service is running and subscribed, the     *)
(* feed streams kline and quote events of two symbols, and the caller      *)
(* queries the buffers.                                                    *)
(***************************************************************************)
MaxQueryAppends == 4
MaxLimit == 3

QueryKlines == [s : Symbols, c : {11000}, t : Times]
QueryQuotes == [s : Symbols, ld : {11000}, t : {1}]
QuerySymbols == Symbols \cup {NoSymbol}
QueryLimits == 0..MaxLimit \cup {defaultLimit}
QueryTimes == Times

GetKlineDataInRange(symbol, startTime, endTime) ==
    Commit(getKlineDataInRange(Begin("getKlineDataInRange"),
                               symbol, startTime, endTime))

GetLatestKlineData(symbol, limit) ==
    Commit(getLatestKlineData(Begin("getLatestKlineData"), symbol, limit))

GetLatestQuoteData(symbol, limit) ==
    Commit(getLatestQuoteData(Begin("getLatestQuoteData"), symbol, limit))

NextQuery ==
    \/ \E i \in 1..Len(socks) : \E m \in DataEnvelopes(QueryKlines, QueryQuotes) :
          Len(klineLog) + Len(quoteLog) < MaxQueryAppends /\ FeedFrame(i, m)
    \/ \E symbol \in Symbols : \E startTime, endTime \in QueryTimes :
          GetKlineDataInRange(symbol, startTime, endTime)
    \/ \E symbol \in QuerySymbols : \E limit \in QueryLimits :
          GetLatestKlineData(symbol, limit)
    \/ \E symbol \in QuerySymbols : \E limit \in QueryLimits :
          GetLatestQuoteData(symbol, limit)

SpecQuery == InitSubscribed /\ [][NextQuery]_vars

(***************************************************************************)
(* The quote specification: the service is running and subscribed and the  *)
(* feed streams quotes of two symbols at three prices.                     *)
(***************************************************************************)
MaxQuoteAppends == 4

StreamQuotes == [s : Symbols, ld : Prices, t : {1}]

NextQuotes ==
    \E i \in 1..Len(socks) : \E m \in DataEnvelopes({}, StreamQuotes) :
       Len(quoteLog) < MaxQuoteAppends /\ FeedFrame(i, m)

SpecQuotes == InitSubscribed /\ [][NextQuotes]_vars

(***************************************************************************)
(* The recovery specification: the service is running and subscribed, the  *)
(* feed streams quotes and answers pings; the connection drops once, the   *)
(* reconnect attempt opens and the feed answers every request with         *)
(* success.  The caller does nothing.  Every step that can be taken is     *)
(* eventually taken.                                                       *)
(***************************************************************************)
MaxRecoverAppends == 3

RecoverQuotes == [s : Symbols, ld : {11000}, t : {1}]

SuccessEnvelopes ==
    {Envelope(TRUE, 1, "auth", "authenticated", "absent", NoEvent),
     Envelope(TRUE, 1, "subscribe", "subscribe Successfully", "absent", NoEvent),
     Envelope(FALSE, 0, "pong", "other", "absent", NoEvent)}

NextRecover ==
    \/ SocketClose(1)
    \/ \E k \in 1..Len(timers) : ReconnectTimerFires(k)
    \/ \E i \in 1..Len(socks) : SocketOpen(i)
    \/ \E i \in 1..Len(socks) : \E m \in SuccessEnvelopes : FeedFrame(i, m)
    \/ \E i \in 1..Len(socks) : \E m \in DataEnvelopes({}, RecoverQuotes) :
          Len(quoteLog) < MaxRecoverAppends /\ FeedFrame(i, m)
    \/ HeartbeatTick

SpecRecover == InitSubscribed /\ [][NextRecover]_vars /\ WF_vars(NextRecover)

(***************************************************************************)
(* The subscription specification: one session is started and              *)
(* authenticated, and the caller starts and resubscribes with every list   *)
(* of up to MaxSymbols symbols, the empty list and lists that repeat a     *)
(* symbol included.                                                        *)
(***************************************************************************)
MaxSymbols == 3

SubscribeLists ==
    UNION {[1..n -> Symbols] : n \in 0..MaxSymbols}

NextSubscribe ==
    \/ \E symbols \in SubscribeLists : socks = <<>> /\ Start(symbols)
    \/ \E symbols \in SubscribeLists : Resubscribe(symbols)
    \/ \E i \in 1..Len(socks) : SocketOpen(i)
    \/ \E i \in 1..Len(socks) :
          \E m \in ControlEnvelopes : FeedFrame(i, m)

SpecSubscribe == Init /\ [][NextSubscribe]_vars

(***************************************************************************)
(* The heartbeat specification: the service is running and subscribed,     *)
(* the feed streams quotes; pings are sent, and the feed answers a ping    *)
(* with a pong of any of the shapes the router takes for one, or not at    *)
(* all: then the deadline fires and the connection is closed.              *)
(***************************************************************************)
MaxHeartbeatAppends == 3

PongEnvelopes ==
    {Envelope(TRUE, 1, "pong", "other", d, NoEvent) : d \in {"absent", "other"}}
    \cup {Envelope(FALSE, 0, "pong", "other", d, NoEvent) : d \in {"absent", "other"}}

NextHeartbeat ==
    \/ HeartbeatTick
    \/ \E i \in 1..Len(socks) : \E m \in PongEnvelopes : FeedFrame(i, m)
    \/ HeartbeatTimeoutFires
    \/ HeartbeatTimeoutNotified
    \/ \E i \in 1..Len(socks) : SocketClose(i)
    \/ \E i \in 1..Len(socks) : \E m \in DataEnvelopes({}, RecoverQuotes) :
          Len(quoteLog) < MaxHeartbeatAppends /\ FeedFrame(i, m)

SpecHeartbeat == InitSubscribed /\ [][NextHeartbeat]_vars

(***************************************************************************)
(* The router specification: the service is running and subscribed, pings  *)
(* are sent, and the socket delivers frames of every shape: texts that     *)
(* are not JSON, null, and envelopes with and without a code, with every   *)
(* response action, with and without a payload, the payload of a kline     *)
(* with and without its bar.                                               *)
(***************************************************************************)
MaxRouterAppends == 2

RouterCodes == {<<FALSE, 0>>, <<TRUE, 0>>, <<TRUE, 1>>, <<TRUE, 2>>}

RouterActions ==
    {<<"absent", "other">>, <<"auth", "authenticated">>, <<"auth", "other">>,
     <<"subscribe", "subscribe Successfully">>, <<"subscribe", "other">>,
     <<"pong", "other">>, <<"other", "other">>}

RouterPayloads ==
    {<<"absent", NoEvent>>,
     <<"kline", [s |-> "EURUSD$GB", c |-> 11000, t |-> 1]>>,
     <<"kline", NullBar("EURUSD$GB")>>,
     <<"quote", [s |-> "EURUSD$GB", ld |-> 11000, t |-> 1]>>,
     <<"other", NoEvent>>}

RouterEnvelopes ==
    {Envelope(c[1], c[2], a[1], a[2], p[1], p[2]) :
        c \in RouterCodes, a \in RouterActions, p \in RouterPayloads}

RouterFrames ==
    {TextFrame("garbage", Envelope(FALSE, 0, "absent", "other", "absent", NoEvent)),
     TextFrame("null", Envelope(FALSE, 0, "absent", "other", "absent", NoEvent))}
    \cup {TextFrame("object", m) : m \in RouterEnvelopes}

(* the socket delivers a frame; result keeps the frame *)
Message(i, frame) ==
    /\ socks[i].opened
    /\ socks[i].rs \in {RS_OPEN, RS_CLOSING}
    /\ Commit(onMessage([Begin("message") EXCEPT !.result = frame], i, frame))

NextRouter ==
    \/ \E i \in 1..Len(socks) : \E frame \in RouterFrames :
          /\ IsData(frame.m) => Len(klineLog) + Len(quoteLog) < MaxRouterAppends
          /\ Message(i, frame)
    \/ HeartbeatTick

SpecRouter == InitSubscribed /\ [][NextRouter]_vars

(***************************************************************************)
(* The application specification: the process of index.ts.  main()         *)
(* registers its listeners and starts the service once; a signal stops     *)
(* the service and ends the process (the wait for the API server to stop   *)
(* is not modelled); nothing runs once the process has exited.             *)
(***************************************************************************)
InitApp == InitState("running")

Main(symbols) ==
    /\ socks = <<>>
    /\ Start(symbols)

Shutdown == Commit(Exit(stop(Begin("shutdown"))))

Alive == process = "running"

NextApp ==
    \/ \E symbols \in StartLists : Alive /\ Main(symbols)
    \/ Alive /\ Shutdown
    \/ \E i \in 1..Len(socks) : Alive /\ SocketOpen(i)
    \/ \E i \in 1..Len(socks) : Alive /\ SocketFail(i)
    \/ \E i \in 1..Len(socks) : Alive /\ SocketClose(i)
    \/ \E i \in 1..Len(socks) :
          \E m \in ControlEnvelopes : Alive /\ FeedFrame(i, m)
    \/ \E i \in 1..Len(socks) : Alive /\ ErrorNotified(i)
    \/ \E i \in 1..Len(socks) : Alive /\ ReconnectFailureNotified(i)
    \/ \E k \in 1..Len(timers) :
          Alive /\ Room(MaxSockets, MaxPending) /\ ReconnectTimerFires(k)
    \/ Alive /\ HeartbeatTick
    \/ \E k \in 1..Len(authWaits) : Alive /\ AuthTimeout(k)

SpecApp == InitApp /\ [][NextApp]_vars

(***************************************************************************)
(* The session specification: one connection at a time is started,         *)
(* authenticated and subscribed, and the caller may resubscribe or stop.   *)
(***************************************************************************)
NextSession ==
    \/ \E symbols \in SymbolLists :
          Room(MaxSessionSockets, MaxSessionSockets) /\ Start(symbols)
    \/ Stop
    \/ \E symbols \in SymbolLists : Resubscribe(symbols)
    \/ \E i \in 1..Len(socks) : SocketOpen(i)
    \/ \E i \in 1..Len(socks) : SocketClose(i)
    \/ \E i \in 1..Len(socks) :
          \E m \in ControlEnvelopes : FeedFrame(i, m)

SpecSession == Init /\ [][NextSession]_vars

(***************************************************************************)
(* Properties.                                                             *)
(***************************************************************************)
LastN(s, n) == IF Len(s) <= n THEN s ELSE SubSeq(s, Len(s) - n + 1, Len(s))

Count(s, e) == Cardinality({k \in 1..Len(s) : s[k] = e})

LiveSockets == {i \in 1..Len(socks) : Live(socks[i])}

(* what the program holds, without the history the model keeps *)
ProgramState ==
    <<ws, status, heartbeatInterval, heartbeatTimeout, reconnectAttempts,
      shouldReconnect, isRunning, subscribedSymbols, dataBuffer, quoteBuffer,
      timers, authWaits, hbCallbacks, process,
      [i \in 1..Len(socks) |-> socks[i].rs]>>

(* C1: neither history buffer is ever longer than maxBufferSize, and each *)
(* holds exactly the last maxBufferSize events appended since it was last *)
(* emptied, in arrival order.                                             *)
C1_BufferHoldsLastEvents ==
    /\ Len(dataBuffer) <= maxBufferSize
    /\ Len(quoteBuffer) <= maxBufferSize
    /\ dataBuffer = LastN(klineLog, maxBufferSize)
    /\ quoteBuffer = LastN(quoteLog, maxBufferSize)

(* more than maxBufferSize kline events were appended: the oldest is gone *)
C1_Witness ==
    /\ Len(klineLog) > maxBufferSize
    /\ Len(dataBuffer) = maxBufferSize
    /\ op = "kline"


(* the socket whose close (or error and close) event the step delivered *)
ClosedInStep(i) ==
    /\ i \in 1..Len(socks)
    /\ socks[i].rs # RS_CLOSED
    /\ socks'[i].rs = RS_CLOSED

Scheduled == Len(timers') - Len(timers)

(* C2: a close event delivered while the status is Subscribed, not        *)
(* intentional and with attempts left, arms exactly one reconnect timer   *)
(* and increments the counter once; the close event of a socket that      *)
(* disconnect() closed while the status was Subscribed arms none.         *)
C2_CloseSchedulesOnceOrNever ==
    [][\A i \in 1..Len(socks) : ClosedInStep(i) =>
          /\ (status = SUBSCRIBED /\ shouldReconnect
                /\ reconnectAttempts < maxReconnectAttempts)
             => (Scheduled = 1 /\ reconnectAttempts' = reconnectAttempts + 1)
          /\ (socks[i].closer = "disconnect" /\ socks[i].closedFrom = SUBSCRIBED)
             => (Scheduled = 0 /\ reconnectAttempts' = reconnectAttempts)]_vars

(* C3: once stop() has stopped the service and until the next start(), no *)
(* reconnect timer, heartbeat interval or pong deadline is pending and no *)
(* connect() is made.                                                     *)
C3_StopQuiesces ==
    stopped =>
        /\ timers = <<>>
        /\ ~heartbeatInterval
        /\ ~heartbeatTimeout
        /\ connectsSinceStop = 0

(* C4: at most one socket is connecting or open.                          *)
C4_AtMostOneLiveSocket == Cardinality(LiveSockets) <= 1

(* C5: stop() on a running service emits `stopped` exactly once and       *)
(* leaves the service not running; stop() on a service that is not        *)
(* running emits nothing, writes nothing and changes no state.            *)
C5_StopIdempotent ==
    [][op' = "stop" =>
          IF isRunning
          THEN Count(emits', "stopped") = 1 /\ ~isRunning'
          ELSE emits' = <<>> /\ wrote' = <<>> /\ ProgramState' = ProgramState]_vars

(* a second stop() while the socket the first one closed is still closing *)
C5_Witness ==
    /\ op = "stop"
    /\ emits = <<>>
    /\ stopped
    /\ ~isRunning
    /\ \E i \in 1..Len(socks) : socks[i].rs = RS_CLOSING /\ socks[i].closer = "disconnect"

(* C6: the timer scheduleReconnect arms carries the counter after the     *)
(* increment as its attempt number n, and its delay is 1000, 2000, 4000,  *)
(* 8000, 16000 for n = 1..5; the delay for n = 6 is 30000.                *)
ExpectedDelays == <<1000, 2000, 4000, 8000, 16000, 30000>>

C6_BackoffDelays ==
    [][/\ \A n \in 1..(maxReconnectAttempts + 1) :
             ReconnectDelayFor(n) = ExpectedDelays[n]
       /\ Scheduled = 1 =>
             LET t == timers'[Len(timers')]
             IN /\ t.attempt = reconnectAttempts'
                /\ t.attempt \in 1..maxReconnectAttempts
                /\ t.delay = ExpectedDelays[t.attempt]]_vars

(* a timer armed for the fifth attempt *)
C6_Witness ==
    \E k \in 1..Len(timers) :
        timers[k].attempt = maxReconnectAttempts /\ timers[k].delay = 16000

(* the socket whose authentication the step's frame refused *)
AuthRefusedInStep(i) ==
    /\ i \in 1..Len(socks)
    /\ socks[i].auth = "none"
    /\ socks'[i].auth = "failed"

(* C7: an auth response whose msg is not "authenticated" sets the status  *)
(* to Error and emits authFailed once; the start() awaiting the           *)
(* authentication rejects (the service is left not running) without       *)
(* writing a subscribe request and without emitting started; and no       *)
(* subscribe request is ever written to a socket that refused the         *)
(* authentication.                                                        *)
C7_AuthFailureNeverSubscribes ==
    [][/\ \A i \in 1..Len(socks) : AuthRefusedInStep(i) =>
             /\ status' = ERROR
             /\ Count(emits', "client.authFailed") = 1
             /\ Count(emits', "authFailed") = 1
             /\ Count(emits', "started") = 0
             /\ wrote' = <<>>
             /\ authWaits' = <<>>
             /\ authWaits # <<>> => ~isRunning'
       /\ \A k \in 1..Len(wrote') :
             wrote'[k][2].ac = "subscribe" => socks'[wrote'[k][1]].auth # "failed"]_vars

(* the authentication was refused while start() awaited it *)
C7_Witness ==
    /\ op = "auth"
    /\ status = ERROR
    /\ Count(emits, "authFailed") = 1
    /\ ~isRunning
    /\ ws # 0
    /\ socks[ws].auth = "failed"
    /\ socks[ws].rs = RS_OPEN

(* C8: the heartbeat-timeout callback, resumed after the notification,    *)
(* closes the socket without marking the disconnect intentional; the      *)
(* close event of a socket it closed, delivered while the disconnect is   *)
(* still not intentional, arms exactly one timer, for attempt 1 with      *)
(* delay 1000: the counter goes from 0 to 1.                              *)
C8_HeartbeatTimeoutReconnects ==
    [][/\ op' = "heartbeatTimeoutNotified" =>
             /\ shouldReconnect' = shouldReconnect
             /\ (ws # 0 /\ Live(socks[ws])) =>
                   (socks'[ws].rs = RS_CLOSING /\ socks'[ws].closer = "heartbeat")
       /\ \A i \in 1..Len(socks) :
             (ClosedInStep(i) /\ socks[i].closer = "heartbeat" /\ shouldReconnect) =>
                /\ Scheduled = 1
                /\ reconnectAttempts = 0
                /\ reconnectAttempts' = 1
                /\ timers'[Len(timers')].delay = reconnectDelay]_vars

(* C9: the failure of one reconnect attempt calls scheduleReconnect at    *)
(* most once, and the counter is at most one more than the reconnect      *)
(* attempts made since the connection was lost.                           *)
C9_FailedAttemptSchedulesOnce ==
    /\ \A i \in 1..Len(socks) : socks[i].caller = "reconnect" => socks[i].sched <= 1
    /\ reconnectAttempts <= attemptsMade + 1

(* C10: when maxReconnectAttemptsReached has been emitted, exactly        *)
(* maxReconnectAttempts reconnect attempts were made, the event was       *)
(* emitted once, the service is stopped and no connect() was made since.  *)
C10_ExhaustionStopsAfterMaxAttempts ==
    maxReached > 0 =>
        /\ attemptsMade = maxReconnectAttempts
        /\ maxReached = 1
        /\ ~isRunning
        /\ stopped
        /\ connectsSinceStop = 0

(* C11: resubscribe(symbols) on a running service replaces the            *)
(* subscription set with exactly symbols and leaves the connection as it  *)
(* is; when the status is Subscribed and the socket open, it writes one   *)
(* subscribe request for symbols to that socket.                          *)
C11_ResubscribeReplacesAndResends ==
    [][(op' = "resubscribe" /\ isRunning) =>
          /\ subscribedSymbols' = result'.symbols
          /\ ws' = ws
          /\ status' = status
          /\ \A i \in 1..Len(socks) : socks'[i].rs = socks[i].rs
          /\ (status = SUBSCRIBED /\ ws # 0 /\ socks[ws].rs = RS_OPEN) =>
                wrote' = << <<ws, subscribeMessage(result'.symbols)>> >>]_vars

(* C12: start() on a service that is already running fails with an       *)
(* AlreadyRunning error and changes neither the subscription set, the     *)
(* status nor the sockets.                                                *)
C12_StartWhileRunningFails ==
    [][(op' = "start" /\ isRunning) =>
          /\ result' = "AlreadyRunning"
          /\ subscribedSymbols' = subscribedSymbols
          /\ status' = status
          /\ ws' = ws
          /\ socks' = socks]_vars

(* C13: a step emits started only when it handled the authenticated      *)
(* response, after emitting authenticated, and for each started it wrote  *)
(* the subscribe request for the symbols of the start() that was waiting, *)
(* to a socket that has opened.                                           *)
C13_StartedFollowsSubscribe ==
    [][Count(emits', "started") > 0 =>
          /\ op' = "auth"
          /\ Len(emits') >= 2
          /\ emits'[2] = "authenticated"
          /\ Count(emits', "started") = Len(authWaits)
          /\ Len(wrote') = Len(authWaits)
          /\ \A k \in 1..Len(wrote') :
                /\ wrote'[k][2] = subscribeMessage(authWaits[k])
                /\ socks[wrote'[k][1]].opened]_vars

(* C14: when the 10 s timer of waitForAuthentication() fires, the        *)
(* start() that was waiting fails with the timeout error: the step writes *)
(* no request and emits nothing (no started), the start() waits no more,  *)
(* and isRunning is false after it.                                       *)
C14_AuthTimeoutFailsStart ==
    [][op' = "authTimeout" =>
          /\ result' = "AuthenticationTimeout"
          /\ wrote' = <<>>
          /\ emits' = <<>>
          /\ Len(authWaits') = Len(authWaits) - 1
          /\ ~isRunning']_vars

(* the timer fired while the socket was open and had delivered no        *)
(* authentication response                                                *)
C14_Witness ==
    /\ op = "authTimeout"
    /\ result = "AuthenticationTimeout"
    /\ ~isRunning
    /\ authWaits = <<>>
    /\ ws # 0
    /\ socks[ws].rs = RS_OPEN
    /\ socks[ws].auth = "none"

(* C15: the heartbeat interval or a pong deadline is armed only while the *)
(* status is Subscribed.                                                  *)
C15_HeartbeatOnlyWhileSubscribed ==
    (heartbeatInterval \/ heartbeatTimeout) => status = SUBSCRIBED

(* C16: a subscribe response whose msg is not the success text emits     *)
(* subscribeFailed once and is not fatal: the status stays Authenticated, *)
(* the step arms no heartbeat timer and writes nothing, the service keeps *)
(* running and so does the process.                                       *)
C16_SubscribeFailureNotFatal ==
    [][(op' = "subscribe" /\ Count(emits', "client.subscribeFailed") = 1
           /\ status = AUTHENTICATED /\ isRunning) =>
          /\ Count(emits', "subscribeFailed") = 1
          /\ status' = AUTHENTICATED
          /\ heartbeatInterval' = heartbeatInterval
          /\ heartbeatTimeout' = heartbeatTimeout
          /\ wrote' = <<>>
          /\ isRunning'
          /\ process' = process]_vars

(* C17: stop() on a running service closes the current socket with the   *)
(* disconnect marked intentional, empties both buffers, leaves the status *)
(* Disconnected and isRunning false, and emits stopped exactly once.      *)
C17_StopPostconditions ==
    [][(op' = "stop" /\ isRunning) =>
          /\ ~isRunning'
          /\ status' = DISCONNECTED
          /\ dataBuffer' = <<>>
          /\ quoteBuffer' = <<>>
          /\ emits' = <<"stopped">>
          /\ ~shouldReconnect'
          /\ ws' = 0
          /\ ~heartbeatInterval'
          /\ ~heartbeatTimeout'
          /\ (ws # 0 /\ Live(socks[ws])) =>
                (socks'[ws].rs = RS_CLOSING /\ socks'[ws].closer = "disconnect")]_vars

(* stop() has closed the socket of a subscribed session *)
C17_Witness ==
    /\ op = "stop"
    /\ emits = <<"stopped">>
    /\ ~isRunning
    /\ dataBuffer = <<>>
    /\ quoteBuffer = <<>>
    /\ \E i \in 1..Len(socks) :
          /\ socks[i].rs = RS_CLOSING
          /\ socks[i].closer = "disconnect"
          /\ socks[i].closedFrom = SUBSCRIBED
          /\ socks[i].streaming

(* the positions of buffer that hold an entry of the symbol (every       *)
(* position when the symbol was omitted)                                  *)
Matching(buffer, symbol) ==
    {i \in 1..Len(buffer) : symbol = NoSymbol \/ buffer[i].s = symbol}

(* the j-th smallest element of a set of positions *)
Nth(idx, j) == CHOOSE i \in idx : Cardinality({x \in idx : x <= i}) = j

(* the last n of the entries of buffer at the positions idx, oldest first *)
LastOf(buffer, idx, n) ==
    [j \in 1..n |-> buffer[Nth(idx, Cardinality(idx) - n + j)]]

(* C18: for every limit >= 0, zero and limits above the number of matches *)
(* included, getLatestKlineData and getLatestQuoteData return the last    *)
(* min(limit, m) of the m retained entries that match the symbol filter,  *)
(* oldest first, and never more than limit entries.                       *)
C18_LatestReturnsLastMinLimit ==
    [][op' \in {"getLatestKlineData", "getLatestQuoteData"} =>
          LET buffer == IF op' = "getLatestKlineData"
                        THEN dataBuffer ELSE quoteBuffer
              idx == Matching(buffer, result'.symbol)
              limit == result'.limit
          IN /\ result'.value = LastOf(buffer, idx, Min(limit, Cardinality(idx)))
             /\ Len(result'.value) <= limit]_vars

(* C19: getKlineDataInRange returns the retained kline entries of the     *)
(* symbol whose bar timestamp lies in [startTime, endTime], both bounds   *)
(* included, oldest first, and leaves the buffer unchanged.               *)
C19_RangeReturnsRetainedInclusive ==
    [][op' = "getKlineDataInRange" =>
          LET idx == {i \in 1..Len(dataBuffer) :
                         /\ dataBuffer[i].s = result'.symbol
                         /\ result'.startTime <= dataBuffer[i].t
                         /\ dataBuffer[i].t <= result'.endTime}
          IN /\ result'.value = LastOf(dataBuffer, idx, Cardinality(idx))
             /\ dataBuffer' = dataBuffer
             /\ quoteBuffer' = quoteBuffer]_vars

(* a range query whose bounds are both met by returned entries, after an *)
(* entry of the symbol inside the range was evicted                       *)
C19_Witness ==
    /\ op = "getKlineDataInRange"
    /\ Len(klineLog) > maxBufferSize
    /\ klineLog[1].s = result.symbol
    /\ result.startTime <= klineLog[1].t
    /\ klineLog[1].t <= result.endTime
    /\ result.startTime < result.endTime
    /\ \E j \in 1..Len(result.value) : result.value[j].t = result.startTime
    /\ \E j \in 1..Len(result.value) : result.value[j].t = result.endTime
    /\ Len(result.value) < Len(dataBuffer)

(* C20: a quote of a symbol emits significantPriceChange if and only if  *)
(* its price differs by more than 0.1 % from the price of the previous    *)
(* quote received for the same symbol, whether or not quotes of other     *)
(* symbols arrived in between.                                            *)
C20_SignificantChangeAgainstPreviousOfSymbol ==
    [][op' = "quote" =>
          LET e == quoteLog'[Len(quoteLog')]
              earlier == {i \in 1..Len(quoteLog) : quoteLog[i].s = e.s}
          IN earlier # {} =>
                LET p == quoteLog[Nth(earlier, Cardinality(earlier))]
                IN Count(emits', "significantPriceChange") > 0
                      <=> Abs(e.ld - p.ld) * 1000 > p.ld]_vars

(* C21: sendMessage writes the request if and only if a socket exists and *)
(* its readyState is OPEN; otherwise nothing is written, the caller runs  *)
(* on (no exception) and the session status is unchanged.                 *)
C21_SendOnlyWhenOpen ==
    [][/\ \A k \in 1..Len(wrote') :
             /\ wrote'[k][1] = ws
             /\ socks[ws].rs = RS_OPEN
       /\ op' = "heartbeat" =>
             /\ wrote' = IF ws # 0 /\ socks[ws].rs = RS_OPEN
                         THEN << <<ws, pingMessage>> >> ELSE <<>>
             /\ heartbeatTimeout'
             /\ status' = status]_vars

(* a ping was due while the socket was closing or closed: nothing written *)
C21_Witness ==
    /\ op = "heartbeat"
    /\ wrote = <<>>
    /\ ws # 0
    /\ socks[ws].rs # RS_OPEN
    /\ heartbeatTimeout

(* a ping was due while the client held no socket *)
C21_WitnessNoSocket ==
    /\ op = "heartbeat"
    /\ wrote = <<>>
    /\ ws = 0

(* C22: every transport open reached by a reconnect attempt (the attempt  *)
(* counter is above 0 at the open) surfaces exactly one reconnected event *)
(* to the listeners of the service, and the success notification carries  *)
(* the number, at least 1, of the attempt that succeeded.                 *)
C22_ReconnectedSurfacedOnce ==
    [][(op' = "open" /\ reconnectAttempts > 0) =>
          /\ Count(emits', "reconnected") = 1
          /\ successAttempt' >= 1]_vars

(* C26: after the connection dropped from Subscribed and the reconnect    *)
(* attempt opened, with the feed answering every request with success,    *)
(* the session returns to Subscribed with the heartbeat armed, without    *)
(* any call by the caller.                                                *)
C26_ReconnectResubscribes ==
    (op = "close") ~> (status = SUBSCRIBED /\ heartbeatInterval)

(* the symbols of a list joined with "$", built from the end of the list *)
RECURSIVE Joined(_)
Joined(l) ==
    IF Len(l) = 0 THEN ""
    ELSE IF Len(l) = 1 THEN l[1]
    ELSE Joined(SubSeq(l, 1, Len(l) - 1)) \o "$" \o l[Len(l)]

(* the symbol list of the k-th subscribe request a step writes: the      *)
(* argument of resubscribe(), or of the k-th start() the step resumes     *)
RequestedList(k) ==
    IF op' = "resubscribe" THEN result'.symbols ELSE authWaits[k]

(* C23: the subscribe request built from a symbol list has ac =           *)
(* "subscribe", types = "quote" and params equal to the symbols joined    *)
(* with "$" in list order; ["EURUSD$GB","USDJPY$GB"] gives                *)
(* "EURUSD$GB$USDJPY$GB".                                                 *)
C23_SubscribeRequestJoinsSymbols ==
    [][op' \in {"resubscribe", "auth"} =>
          \A k \in 1..Len(wrote') :
             LET request == wrote'[k][2]
                 symbols == RequestedList(k)
             IN /\ request.ac = "subscribe"
                /\ request.types = "quote"
                /\ request.params = Joined(symbols)
                /\ symbols = <<"EURUSD$GB", "USDJPY$GB">> =>
                      request.params = "EURUSD$GB$USDJPY$GB"]_vars

(* start(["EURUSD$GB","USDJPY$GB"]) has written its subscribe request *)
C23_Witness ==
    /\ op = "auth"
    /\ Count(emits, "started") = 1
    /\ subscribedSymbols = <<"EURUSD$GB", "USDJPY$GB">>
    /\ wrote = << <<ws, [ac |-> "subscribe", params |-> "EURUSD$GB$USDJPY$GB",
                         types |-> "quote"]>> >>

(* C24: at most one reconnect timer is pending, and the handle            *)
(* reconnectInterval refers to it.                                        *)
C24_OneReconnectTimer ==
    /\ Len(timers) <= 1
    /\ \A k \in 1..Len(timers) : timers[k].handle

(* C25: whenever isRunning is false the client has no connecting or open  *)
(* socket, no pending reconnect timer and no heartbeat timer.             *)
C25_NotRunningIsQuiet ==
    ~isRunning =>
        /\ LiveSockets = {}
        /\ timers = <<>>
        /\ ~heartbeatInterval
        /\ ~heartbeatTimeout

(* C27: the session status changes to Authenticated only from Connecting  *)
(* or Connected, and to Subscribed only from Authenticated, whatever      *)
(* message arrives in whatever state.                                     *)
C27_StatusTransitionsGuarded ==
    [][/\ (status' = AUTHENTICATED /\ status # AUTHENTICATED) =>
             status \in {CONNECTING, CONNECTED}
       /\ (status' = SUBSCRIBED /\ status # SUBSCRIBED) =>
             status = AUTHENTICATED]_vars

(* the subscribe requests among the requests a step wrote *)
SubscribesWritten(requests) ==
    Cardinality({k \in 1..Len(requests) : requests[k][2].ac = "subscribe"})

(* C28: a start() that succeeds writes one subscribe request and emits    *)
(* started once, and a start() that stop() interrupted writes and emits   *)
(* nothing later, also when start() is called again within its wait for   *)
(* the authentication.  At most one start() is in progress at a time (a   *)
(* start() while running returns at once) and none while the service is   *)
(* not running: a step emits started and writes a subscribe request at    *)
(* most once while running and never otherwise.                           *)
C28_OneStartedPerStart ==
    [][op' # "resubscribe" =>
          LET inProgress == IF isRunning THEN 1 ELSE 0
          IN /\ Count(emits', "started") <= inProgress
             /\ SubscribesWritten(wrote') <= inProgress]_vars

(* C29: a subscribe request is written only when the session status is   *)
(* Authenticated; subscribe() called in any other status writes nothing   *)
(* and leaves the status unchanged.                                       *)
C29_SubscribeOnlyWhenAuthenticated ==
    [][/\ SubscribesWritten(wrote') > 0 => status' = AUTHENTICATED
       /\ (op' = "resubscribe" /\ isRunning) =>
             /\ status' = status
             /\ status # AUTHENTICATED => wrote' = <<>>
             /\ (status = AUTHENTICATED /\ ws # 0 /\ socks[ws].rs = RS_OPEN) =>
                   SubscribesWritten(wrote') = 1]_vars

(* resubscribe() called subscribe() on an open socket of a subscribed    *)
(* session: nothing was written                                           *)
C29_Witness ==
    /\ op = "resubscribe"
    /\ isRunning
    /\ status = SUBSCRIBED
    /\ ws # 0
    /\ socks[ws].rs = RS_OPEN
    /\ wrote = <<>>

(* C30: handling a pong, with or without a status code and with or        *)
(* without a data payload, cancels the pending pong deadline and leaves   *)
(* the session status unchanged; the deadline is armed by a ping only and *)
(* fires only while pending, so a ping answered before the deadline       *)
(* never leads to the forced close.                                       *)
C30_PongCancelsDeadline ==
    [][/\ op' = "pong" =>
             /\ ~heartbeatTimeout'
             /\ status' = status
             /\ heartbeatInterval' = heartbeatInterval
             /\ hbCallbacks' = hbCallbacks
             /\ \A i \in 1..Len(socks) : socks'[i].rs = socks[i].rs
       /\ (heartbeatTimeout' /\ ~heartbeatTimeout) => op' = "heartbeat"
       /\ hbCallbacks' > hbCallbacks => heartbeatTimeout]_vars

(* a ping was written and its pong handled before the deadline *)
C30_Witness ==
    /\ op = "pong"
    /\ status = SUBSCRIBED
    /\ heartbeatInterval
    /\ ~heartbeatTimeout
    /\ hbCallbacks = 0
    /\ ws # 0
    /\ socks[ws].rs = RS_OPEN
    /\ ~socks[ws].pingReq

(* C31: whenever authenticated is emitted the reconnect attempt counter   *)
(* is 0, and the counter is 0 in every state whose status is              *)
(* Authenticated or Subscribed.                                           *)
C31_CounterZeroWhenAuthenticated ==
    /\ Count(emits, "authenticated") > 0 => reconnectAttempts = 0
    /\ status \in {AUTHENTICATED, SUBSCRIBED} => reconnectAttempts = 0

(* C32: an intentional stop discards the reconnect context: after stop()  *)
(* the attempt counter is 0, so the first disconnect after a later        *)
(* start() is scheduled as attempt 1 with delay 1000 ms.                  *)
C32_StopResetsCounter ==
    [][(op' = "stop" /\ isRunning) => reconnectAttempts' = 0]_vars

(* the handler the priority rule names for an envelope *)
RuleHandler(m) ==
    IF m.hasCode
    THEN IF m.code = 1
         THEN IF m.resAc \in {"auth", "subscribe", "pong"} THEN m.resAc
              ELSE IF m.data \in {"kline", "quote"} THEN m.data
              ELSE "log"
         ELSE "log"
    ELSE IF m.resAc = "pong" THEN "pong" ELSE "log"

(* the handler that ran in the step, told by what only it emits *)
Emitted(es, names) == \E k \in 1..Len(es) : es[k] \in names

(* C33: handleMessage dispatches every envelope as the priority rule      *)
(* states: code 1 with resAc auth, subscribe or pong to that handler;     *)
(* code 1 with a kline or quote payload to the kline or quote handler,    *)
(* whether or not a resAc is present; no code and resAc pong to the       *)
(* heartbeat handler; everything else is only logged and changes nothing. *)
C33_DispatchFollowsRule ==
    [][(op' = "message" /\ result'.body = "object") =>
          LET h == RuleHandler(result'.m)
          IN /\ h = "auth" <=>
                   Emitted(emits', {"client.authenticated", "client.authFailed"})
             /\ h = "subscribe" <=>
                   Emitted(emits', {"client.subscribed", "client.subscribeFailed"})
             /\ h = "kline" <=> Emitted(emits', {"client.klineData"})
             /\ h = "quote" <=> Emitted(emits', {"client.quoteData"})
             /\ h = "pong" => (~heartbeatTimeout' /\ emits' = <<>>)
             /\ h = "log" => (emits' = <<>> /\ ProgramState' = ProgramState)]_vars

(* handling the frame raises an exception: the text is not JSON or is     *)
(* null, or the frame is a kline whose bar is null, or a kline that       *)
(* follows one of its symbol whose bar is null                            *)
Raises(frame) ==
    \/ frame.body # "object"
    \/ /\ Dispatch(frame.m) = "kline"
       /\ \/ ~HasBar(frame.m.ev)
          \/ /\ Len(dataBuffer) >= 1
             /\ dataBuffer[Len(dataBuffer)].s = frame.m.ev.s
             /\ ~HasBar(dataBuffer[Len(dataBuffer)])

(* C34: a frame that fails to parse, or whose handling raises an          *)
(* exception, is dropped: the session status, the timers, the buffers     *)
(* and the transport are unchanged and no reconnect is scheduled.         *)
C34_BadFrameDropped ==
    [][(op' = "message" /\ Raises(result')) =>
          /\ ProgramState' = ProgramState
          /\ reconnectAttempts' = reconnectAttempts
          /\ emits' = <<>>]_vars

(* C35: the reconnect attempt counter stays between 0 and                 *)
(* maxReconnectAttempts, whatever the interleaving of close events,       *)
(* failed attempts and timer firings.                                     *)
C35_CounterBounded ==
    /\ 0 <= reconnectAttempts
    /\ reconnectAttempts <= maxReconnectAttempts

(* the counter is at the maximum and the close event of a failed attempt  *)
(* has been handled without scheduling another                            *)
C35_Witness ==
    /\ reconnectAttempts = maxReconnectAttempts
    /\ op = "fail"
    /\ shouldReconnect
    /\ \E i \in 1..Len(socks) :
          /\ socks[i].rs = RS_CLOSED
          /\ socks[i].caller = "reconnect"
          /\ socks[i].errWait
          /\ socks[i].sched = 0

(* C36: after stop() has returned and until the next start(), both history *)
(* buffers are empty and no step publishes klineData or quoteData: a frame *)
(* delivered by the socket that is being closed is neither appended nor    *)
(* republished.                                                            *)
C36_QuietAfterStop ==
    (stopped /\ ~isRunning) =>
        /\ dataBuffer = <<>>
        /\ quoteBuffer = <<>>
        /\ ~Emitted(emits, {"klineData", "quoteData"})

====
